---- MODULE Spec2Model ----
(***************************************************************************)
(* Model of the RAG backend of backend/src/index.ts: the knowledge-base    *)
(* initialisation (load the persisted vector store or build it from the    *)
(* document folder), the POST /chat handler with its write-back of the     *)
(* reply into the vector store, and GET /vector-stats.                     *)
(*                                                                         *)
(* The server is one Node.js process: a handler runs without interruption  *)
(* from one await to the next, so every action below is the code between   *)
(* two consecutive awaits of one asynchronous function.                    *)
(***************************************************************************)
EXTENDS Integers, Sequences, FiniteSets, TLC

\* ---------------------------------------------------------------- bounds
\* number of POST /chat requests accepted during one run
MaxChats == 2

\* ------------------------------------------------------ program constants
TOP_K == 5
BATCH_SIZE == 5
PREVIEW_LEN == 300

\* a local or a field that holds nothing yet
Null == "null"
\* a property that is missing: req.body.message of a body without message,
\* metadata.hash of a document made from a file
Undefined == "undefined"
NoHash == Undefined

\* the module variable vectorStore: null, or an HNSWLib holding documents
NullStore == [isNull |-> TRUE, docs |-> <<>>]
Store(docs) == [isNull |-> FALSE, docs |-> docs]

\* the directory at VECTOR_STORE_PATH: nothing there, or the documents the
\* last completed save wrote
NoSnapshot == [exists |-> FALSE, whole |-> TRUE, docs |-> <<>>]
Saved(docs) == [exists |-> TRUE, whole |-> TRUE, docs |-> docs]
\* what a save that failed part-way leaves there: the directory exists and
\* its files are neither those of the previous save nor those of this one
\* (save is called on VECTOR_STORE_PATH itself and writes its files in place)
Torn == [exists |-> TRUE, whole |-> FALSE, docs |-> <<>>]

\* a response not sent yet has no body
NoBody == [none |-> TRUE]

\* the client connections: two, so that two requests can be in flight at the
\* same time
Clients == {"c1", "c2"}

\* ------------------------------------------------------------- documents
\* SUPPORTED_FILE_FORMATS, the default allow-list of extensions
SUPPORTED_FILE_FORMATS == <<".pdf", ".txt", ".docx", ".csv", ".html", ".md">>

\* crypto.createHash("sha256").update(text).digest("hex"): a digest is a
\* string of its own, different from the text, and equal for equal texts
sha256(text) == "sha256:" \o text

\* text.trim(): leading and trailing blanks removed
trim(text) ==
    CASE text = " "     -> ""
      [] text = " hi"   -> "hi"
      [] text = "hi "   -> "hi"
      [] OTHER          -> text

\* new Document({pageContent, metadata: {source}}) as processFile makes it
FileDoc(text, fileName) ==
    [pageContent |-> text, source |-> fileName, hash |-> NoHash]

\* the document if addToVectorStore took the digest of the source tag
ChatDoc_HashOfSource(text, sourceName) ==
    [pageContent |-> text, source |-> sourceName, hash |-> sha256(sourceName)]

\* new Document({pageContent, metadata: {source, hash}}) as addToVectorStore
\* makes it
ChatDoc(text, sourceName) ==
    [pageContent |-> text, source |-> sourceName, hash |-> sha256(text)]

\* path.extname(filePath).toLowerCase()
extname(f) ==
    CASE f = "a.txt"     -> ".txt"
      [] f = "y.txt"     -> ".txt"
      [] f = "b.md"      -> ".md"
      [] f = "empty.txt" -> ".txt"
      [] f = "bad.pdf"   -> ".pdf"
      [] f = "r.pdf"     -> ".pdf"
      [] f = "s.pdf"     -> ".pdf"
      [] f = "t.docx"    -> ".docx"
      [] f = "u.docx"    -> ".docx"
      [] f = "c.csv"     -> ".csv"
      [] f = "notes.xyz" -> ".xyz"
      [] OTHER           -> ""

\* the extensions the switch of processFile has a case for
Recognized == {".pdf", ".txt", ".md", ".docx", ".csv", ".html"}

\* the cases of the switch that await their parser (pdfParse, mammoth, the
\* csv stream); the others run to the return without an await
Awaits(f) == extname(f) \in {".pdf", ".docx", ".csv"}

\* the parser of the file's format rejects the file
Throws(f) == f = "bad.pdf"

\* the text the parser of a file yields, as the sequence of pieces the
\* splitter cuts it into (a blank text has no piece)
Extracted(f) ==
    CASE f = "a.txt"     -> <<"sky">>
      [] f = "y.txt"     -> <<"yo">>
      [] f = "b.md"      -> <<"grass", "green">>
      [] f = "r.pdf"     -> <<"sky">>
      [] f = "s.pdf"     -> <<"sun">>
      [] f = "t.docx"    -> <<"grass", "green">>
      [] f = "u.docx"    -> <<"moon">>
      [] f = "c.csv"     -> <<"sea">>
      [] f = "notes.xyz" -> <<"note">>
      [] OTHER           -> <<>>

\* line 128: the catch block of processFile ran and logged the failure
Logged(f) == Throws(f)

\* processFile: the chunk documents of one file; [] when anything in the try
\* block throws, when the switch has no case for the extension (text stays
\* "") and when the text is blank
processFile(f) ==
    IF Throws(f)
    THEN <<>>
    ELSE IF extname(f) \notin Recognized
    THEN <<>>
    ELSE [i \in 1 .. Len(Extracted(f)) |-> FileDoc(Extracted(f)[i], f)]

\* the directory listings of PUBLIC_FOLDER the model starts from, each in
\* directory-listing order
Folders ==
    { <<>>,
      <<"empty.txt", "bad.pdf">>,
      <<"a.txt">>,
      <<"bad.pdf", "b.md", "a.txt">>,
      <<"r.pdf", "t.docx", "c.csv", "bad.pdf", "s.pdf", "u.docx">> }

\* a snapshot an earlier run of the server left at VECTOR_STORE_PATH
PriorSnapshot == Saved(<<FileDoc("yo", "y.txt"), ChatDoc("hi", "chat")>>)

\* the folder of that earlier run, which has one more file now
PriorFolder == <<"y.txt", "b.md">>

\* a folder with a file of an extension the switch of processFile has no
\* case for, and the allow-list SUPPORTED_FILE_FORMATS=".txt,.xyz" of the
\* environment that admits it
OtherFormats == <<".txt", ".xyz">>
OtherFolder == <<"notes.xyz", "a.txt">>

\* the configurations the server is started with: allow-list, folder and
\* what VECTOR_STORE_PATH holds (nothing, or the snapshot of an earlier run
\* on the folder that snapshot was built from and has grown since)
Setups ==
    {<<SUPPORTED_FILE_FORMATS, f, NoSnapshot>> : f \in Folders}
        \cup {<<OtherFormats, OtherFolder, NoSnapshot>>}
        \cup {<<SUPPORTED_FILE_FORMATS, PriorFolder, PriorSnapshot>>}

\* the largest number of files of a folder
MaxFiles == 6

RECURSIVE Flat(_)
\* Array.prototype.flat over the per-file results, in file order
Flat(lists) ==
    IF lists = <<>> THEN <<>> ELSE Head(lists) \o Flat(Tail(lists))

\* ----------------------------------------------------------------- state
VARIABLES
    formats,      \* SUPPORTED_FILE_FORMATS as the environment sets it
    folder,       \* the files of PUBLIC_FOLDER, in directory-listing order
    boot,         \* history: what VECTOR_STORE_PATH held when the process started
    snapshot,     \* what VECTOR_STORE_PATH holds
    vectorStore,  \* the module variable vectorStore
    kb,           \* the run of initializeKnowledgeBase
    listening,    \* app.listen has been called
    req,          \* per client connection: the request it has in flight
    chats,        \* number of POST /chat requests accepted so far
    log           \* history: the texts whose addToVectorStore call returned

vars == <<formats, folder, boot, snapshot, vectorStore, kb, listening, req,
          chats, log>>
initVars == <<req, chats, log>>

\* isSupportedFile
isSupportedFile(f) ==
    \E k \in 1 .. Len(formats) : formats[k] = extname(f)

RECURSIVE SelectSupported(_)
SelectSupported(fs) ==
    IF fs = <<>> THEN <<>>
    ELSE IF isSupportedFile(Head(fs))
         THEN <<Head(fs)>> \o SelectSupported(Tail(fs))
         ELSE SelectSupported(Tail(fs))

\* getAllFiles(PUBLIC_FOLDER): the supported files of the folder
getAllFiles(dir) == SelectSupported(dir)

\* the state of the index in the words of the specification
IndexState ==
    IF vectorStore = NullStore THEN "ABSENT"
    ELSE IF kb.path = "load" THEN "LOADED" ELSE "BUILT"

\* the test if it looked at a path that never exists
fileExists_Never(p) == FALSE

\* fs.existsSync
fileExists(p) == p.exists

\* a client connection with no request in flight
Idle ==
    [pc         |-> "idle",
     route      |-> Null,     \* the route of the request
     message    |-> Null,     \* req.body.message
     useRAG     |-> FALSE,    \* req.body.useRAG, until the context is built
     context    |-> <<>>,     \* contextText, as the previews it joins
     toolChoice |-> Null,
     tool       |-> Null,     \* the key of the strategy that ran
     reply      |-> Null,
     pending    |-> <<>>,     \* the documents a save in progress is writing
     status     |-> 0,        \* status of the response, 0 until it is sent
     body       |-> NoBody]   \* the response body

KbInit ==
    [pc         |-> "start",
     path       |-> "none",      \* which branch was taken: load or build
     files      |-> <<>>,        \* const files
     discovered |-> FALSE,       \* getAllFiles was called
     running    |-> {},          \* processFile tasks not yet settled
     results    |-> <<>>,        \* results of the settled tasks, by position
     logged     |-> {},          \* the tasks whose catch block logged a failure
     order      |-> <<>>,        \* history: the tasks in the order they
                                 \* finished, until their results are gathered
     allDocs    |-> <<>>,
     embedded   |-> FALSE,       \* HNSWLib.fromDocuments embedded allDocs
     error      |-> FALSE]       \* the catch block ran

Init ==
    /\ \E setup \in Setups :
          /\ formats = setup[1]
          /\ folder = setup[2]
          /\ snapshot = setup[3]
    /\ boot = snapshot
    /\ vectorStore = NullStore
    /\ kb = KbInit
    /\ listening = FALSE
    /\ req = [r \in Clients |-> Idle]
    /\ chats = 0
    /\ log = [returned |-> {}, added |-> {}]

\* ------------------------------------------- initializeKnowledgeBase
\* line 151: files.map((f) => processFile(f)) calls processFile on every
\* file before anything is awaited: the tasks that are waiting for their
\* parser when Promise.all is awaited (BATCH_SIZE is not used)
Started(files) == {i \in 1 .. Len(files) : Awaits(files[i])}

\* lines 135-151: the store exists on disk: await HNSWLib.load; else
\* discover the files and, when there are some, call processFile on each:
\* a file whose case has no await is processed to its end at once
InitStart ==
    /\ kb.pc = "start"
    /\ IF fileExists(snapshot)
       THEN kb' = [kb EXCEPT !.pc = "loading", !.path = "load"]
       ELSE LET files == getAllFiles(folder) IN
            IF Len(files) = 0
            THEN kb' = [kb EXCEPT !.pc = "settled", !.path = "build",
                                  !.discovered = TRUE]
            ELSE kb' = [kb EXCEPT !.pc = "processing", !.path = "build",
                                  !.discovered = TRUE,
                                  !.files = files,
                                  !.running = Started(files),
                                  !.results =
                                      [i \in 1 .. Len(files) |->
                                          IF Awaits(files[i]) THEN <<>>
                                          ELSE processFile(files[i])],
                                  !.logged =
                                      {i \in 1 .. Len(files) :
                                          ~Awaits(files[i]) /\ Logged(files[i])},
                                  !.order =
                                      SelectSeq([i \in 1 .. Len(files) |-> i],
                                                LAMBDA i : ~Awaits(files[i]))]
    /\ UNCHANGED <<formats, folder, boot, snapshot, vectorStore, listening, initVars>>

\* the entry of a document in the file of documents that save writes:
\* JSON.stringify keeps pageContent and the properties metadata has
toJSON(d) ==
    [pageContent |-> d.pageContent,
     metadata    |-> IF d.hash = Undefined
                     THEN [source |-> d.source]
                     ELSE [source |-> d.source, hash |-> d.hash]]

\* the document if load read its content only and made the metadata anew
fromJSON_ContentOnly(j) ==
    [pageContent |-> j.pageContent, source |-> j.metadata.source, hash |-> Undefined]

\* the document load makes of an entry of that file
fromJSON(j) ==
    [pageContent |-> j.pageContent,
     source      |-> j.metadata.source,
     hash        |-> IF "hash" \in DOMAIN j.metadata
                     THEN j.metadata.hash
                     ELSE Undefined]

\* the same load if the metadata of the documents were not restored
Loaded_ContentOnly(docs) ==
    [i \in DOMAIN docs |-> fromJSON_ContentOnly(toJSON(docs[i]))]

\* the documents of a store loaded from the files a save wrote for docs
Loaded(docs) == [i \in DOMAIN docs |-> fromJSON(toJSON(docs[i]))]

\* line 139: HNSWLib.load resolves with the documents of the snapshot
LoadDone ==
    /\ kb.pc = "loading"
    /\ vectorStore' = Store(Loaded(snapshot.docs))
    /\ kb' = [kb EXCEPT !.pc = "settled"]
    /\ UNCHANGED <<formats, folder, boot, snapshot, listening, initVars>>

\* line 139, 162-164: HNSWLib.load rejects (unreadable store); caught
LoadFail ==
    /\ kb.pc = "loading"
    /\ kb' = [kb EXCEPT !.pc = "settled", !.error = TRUE]
    /\ UNCHANGED <<formats, folder, boot, snapshot, vectorStore, listening, initVars>>

\* the same step if Promise.all gave the results in the order of completion
ProcessFileSettle_Push(i) ==
    /\ kb.pc = "processing"
    /\ i \in kb.running
    /\ kb' = [kb EXCEPT !.running = @ \ {i},
                        !.results =
                            [k \in 1 .. Len(kb.order) + 1 |->
                                processFile(kb.files[Append(kb.order, i)[k]])],
                        !.logged = IF Logged(kb.files[i]) THEN @ \cup {i} ELSE @,
                        !.order = Append(@, i)]
    /\ UNCHANGED <<formats, folder, boot, snapshot, vectorStore, listening, initVars>>

\* lines 82-131, 151: the parser of one processFile task settles and the
\* task resolves with the chunks of its file; Promise.all keeps the result
\* at the position of the file
ProcessFileSettle(i) ==
    /\ kb.pc = "processing"
    /\ i \in kb.running
    /\ kb' = [kb EXCEPT !.running = @ \ {i},
                        !.results[i] = processFile(kb.files[i]),
                        !.logged = IF Logged(kb.files[i]) THEN @ \cup {i} ELSE @,
                        !.order = Append(@, i)]
    /\ UNCHANGED <<formats, folder, boot, snapshot, vectorStore, listening, initVars>>

\* lines 102-108: the read stream of a .csv file, or its parser, emits
\* "error" after processFile has read the file at line 88: no listener for
\* "error" is registered and the process has no uncaughtException handler,
\* so the error is thrown out of the event loop and the process ends
CsvStreamError(i) ==
    /\ kb.pc = "processing"
    /\ i \in kb.running
    /\ extname(kb.files[i]) = ".csv"
    /\ kb' = [kb EXCEPT !.pc = "crashed", !.order = <<>>]
    /\ UNCHANGED <<formats, folder, boot, snapshot, vectorStore, listening, initVars>>

\* the same step without the test of allDocs.length
Gather_NoEmptyCheck ==
    /\ kb.pc = "processing"
    /\ kb.running = {}
    /\ kb' = [kb EXCEPT !.pc = "embedding", !.allDocs = Flat(kb.results)]
    /\ UNCHANGED <<formats, folder, boot, snapshot, vectorStore, listening, initVars>>

\* lines 150-157: Promise.all resolved; flatten; nothing to index: return
Gather ==
    /\ kb.pc = "processing"
    /\ kb.running = {}
    /\ LET allDocs == Flat(kb.results) IN
       IF Len(allDocs) = 0
       THEN kb' = [kb EXCEPT !.pc = "settled", !.order = <<>>]
       ELSE kb' = [kb EXCEPT !.pc = "embedding", !.allDocs = allDocs]
    /\ UNCHANGED <<formats, folder, boot, snapshot, vectorStore, listening, initVars>>

\* line 159: HNSWLib.fromDocuments resolves; vectorStore is assigned
FromDocumentsDone ==
    /\ kb.pc = "embedding"
    /\ vectorStore' = Store(kb.allDocs)
    /\ kb' = [kb EXCEPT !.pc = "saving", !.embedded = TRUE, !.order = <<>>]
    /\ UNCHANGED <<formats, folder, boot, snapshot, listening, initVars>>

\* line 159, 162-164: the embedding call rejects; caught
FromDocumentsFail ==
    /\ kb.pc = "embedding"
    /\ kb' = [kb EXCEPT !.pc = "settled", !.error = TRUE, !.order = <<>>]
    /\ UNCHANGED <<formats, folder, boot, snapshot, vectorStore, listening, initVars>>

\* line 160: vectorStore.save resolves
InitSaveDone ==
    /\ kb.pc = "saving"
    /\ snapshot' = Saved(vectorStore.docs)
    /\ kb' = [kb EXCEPT !.pc = "settled"]
    /\ UNCHANGED <<formats, folder, boot, vectorStore, listening, initVars>>

\* line 160, 162-164: vectorStore.save rejects, before it has written
\* anything or part-way; caught
InitSaveFail ==
    /\ kb.pc = "saving"
    /\ snapshot' \in {snapshot, Torn}
    /\ kb' = [kb EXCEPT !.pc = "settled", !.error = TRUE]
    /\ UNCHANGED <<formats, folder, boot, vectorStore, listening, initVars>>

\* the start of the server if app.listen did not wait for the initialisation
Listen_Early ==
    /\ ~listening
    /\ listening' = TRUE
    /\ UNCHANGED <<formats, folder, boot, snapshot, vectorStore, kb, initVars>>

\* lines 258-266: .finally(() => app.listen(...))
Listen ==
    /\ kb.pc = "settled"
    /\ ~listening
    /\ listening' = TRUE
    /\ UNCHANGED <<formats, folder, boot, snapshot, vectorStore, kb, initVars>>

\* ------------------------------------------------------------- retrieval
\* the embedding capability, a function of the text (one number stands for
\* the vector)
Embedding(text) ==
    CASE text = "hello" -> 0
      [] text = "hi"    -> 1
      [] text = "yo"    -> 2
      [] text = "sky"   -> 4
      [] text = "grass" -> 6
      [] text = "green" -> 7
      [] text = "sea"   -> 10
      [] text = "sun"   -> 12
      [] text = "moon"  -> 14
      [] OTHER          -> 9

Distance(a, b) == IF a >= b THEN a - b ELSE b - a

\* index of the document of docs nearest to the query among those in idx
\* (the first one among equally near documents)
Nearest(docs, q, idx) ==
    CHOOSE i \in idx :
        \A j \in idx :
            \/ Distance(Embedding(docs[i].pageContent), q)
                  < Distance(Embedding(docs[j].pageContent), q)
            \/ /\ Distance(Embedding(docs[i].pageContent), q)
                     = Distance(Embedding(docs[j].pageContent), q)
               /\ i <= j

RECURSIVE Ranked(_, _, _, _)
\* similaritySearch: the k nearest documents, nearest first
Ranked(docs, q, idx, k) ==
    IF k = 0 \/ idx = {} THEN <<>>
    ELSE LET i == Nearest(docs, q, idx)
         IN  <<docs[i]>> \o Ranked(docs, q, idx \ {i}, k - 1)

\* vectorStore.asRetriever({k}).invoke(message)
Retrieve(docs, message, k) ==
    Ranked(docs, Embedding(message), DOMAIN docs, k)

\* d.pageContent.slice(0, 300): the chunks and replies of the model are
\* shorter than the preview length except the text "grass", a full-size
\* chunk, whose first 300 characters are the text "gra"
slice(text, from, to) == IF text = "grass" THEN "gra" ELSE text

\* the previews if the text of a record were not truncated
Previews_Untruncated(found) ==
    [i \in 1 .. Len(found) |-> found[i].pageContent]

\* line 190: the previews that contextText joins with blank lines
Previews(found) ==
    [i \in 1 .. Len(found) |-> slice(found[i].pageContent, 0, PREVIEW_LEN)]

\* ----------------------------------------------------------------- tools
\* the keys of the tools registry (tools/index.ts)
tools == {"codingTool", "default"}

\* what the router model may answer
RouterAnswers == {"codingTool", "default", "General"}

\* ?.trim().toLowerCase() of the router's answer
toLowerCase(text) ==
    CASE text = "codingTool" -> "codingtool"
      [] text = "General"    -> "general"
      [] OTHER               -> text

\* line 211: tools[toolChoice] || tools.default, as the key of the tool
SelectTool(toolChoice) ==
    IF toolChoice \in tools THEN toolChoice ELSE "default"

\* what a tool may reply
Replies == {"hi", "yo", " "}

\* req.body.message: missing, empty or a question
Messages == {Undefined, "", "hello"}

\* ------------------------------------------------------------ POST /chat
\* the handler of a request of this connection is running
Busy(r) == req[r].pc \notin {"idle", "sent"}

\* the response is sent: status and body; the locals of the handler are gone
Sent(r, status, body) ==
    [Idle EXCEPT !.pc = "sent", !.route = req[r].route,
                 !.message = req[r].message,
                 !.status = status, !.body = body]

\* lines 250-253: the global error handler answers 500 with the message
Fail(r, error) ==
    req' = [req EXCEPT ![r] = Sent(r, 500, [error |-> error])]

\* line 233: !message, for a missing or an empty message
\* the check if it tested for a missing message only
Falsy_EmptyAccepted(message) == message = Undefined

Falsy(message) == message = Undefined \/ message = ""

\* the condition without its test of vectorStore
UsesRetrieval_NoNullCheck(useRAG) == useRAG

\* line 187: vectorStore && useRAG
UsesRetrieval(useRAG) == vectorStore # NullStore /\ useRAG

\* lines 229-239 and 183-191: POST /chat arrives
PostChat(r, message, useRAG) ==
    /\ listening
    /\ req[r].pc = "idle"
    /\ chats < MaxChats
    /\ chats' = chats + 1
    /\ IF Falsy(message)
       THEN req' = [req EXCEPT ![r] =
                       [Idle EXCEPT !.pc = "sent", !.route = "/chat",
                                    !.message = message,
                                    !.status = 400,
                                    !.body = [error |-> "Message is required."]]]
       ELSE IF UsesRetrieval(useRAG)
            THEN req' = [req EXCEPT ![r] =
                            [Idle EXCEPT !.pc = "retrieve", !.route = "/chat",
                                         !.message = message,
                                         !.useRAG = useRAG]]
            ELSE req' = [req EXCEPT ![r] =
                            [Idle EXCEPT !.pc = "route", !.route = "/chat",
                                         !.message = message,
                                         !.useRAG = useRAG]]
    /\ UNCHANGED <<formats, folder, boot, snapshot, vectorStore, kb, listening, log>>

\* lines 189-206: the retriever resolves with the documents nearest to the
\* message in the store as it is now; the router model is called
RetrieveDone(r) ==
    /\ req[r].pc = "retrieve"
    /\ req' = [req EXCEPT ![r] =
                  [@ EXCEPT !.pc = "route",
                            !.context =
                                Previews(Retrieve(vectorStore.docs, req[r].message, TOP_K))]]
    /\ UNCHANGED <<formats, folder, boot, snapshot, vectorStore, kb, listening, chats, log>>

\* line 189: the embedding of the question fails
RetrieveFail(r) ==
    /\ req[r].pc = "retrieve"
    /\ Fail(r, "embedding failed")
    /\ UNCHANGED <<formats, folder, boot, snapshot, vectorStore, kb, listening, chats, log>>

\* lines 205-212: the router answers; the tool is looked up and run
RouteDone(r, answer) ==
    /\ req[r].pc = "route"
    /\ req' = [req EXCEPT ![r] =
                  [@ EXCEPT !.pc = "run",
                            !.toolChoice = toLowerCase(trim(answer)),
                            !.tool = SelectTool(toLowerCase(trim(answer))),
                            !.useRAG = FALSE,
                            !.context = <<>>]]
    /\ UNCHANGED <<formats, folder, boot, snapshot, vectorStore, kb, listening, chats, log>>

\* line 206: the router call fails
RouteFail(r) ==
    /\ req[r].pc = "route"
    /\ Fail(r, "llm failed")
    /\ UNCHANGED <<formats, folder, boot, snapshot, vectorStore, kb, listening, chats, log>>

\* the duplicate check if it compared the hash with the content
HasHash_ComparesContent(docs, hash) ==
    \E i \in DOMAIN docs : docs[i].pageContent = hash

\* line 174: docs.some((d) => d.metadata.hash === hash), where docs, read
\* through the untyped property vectorStore.docs, is taken to be the list of
\* the documents the store holds
HasHash(docs, hash) == \E i \in DOMAIN docs : docs[i].hash = hash

\* the early return if it did not test vectorStore
SkipsAdd_NoNullCheck(text) ==
    \/ trim(text) = ""
    \/ HasHash(vectorStore.docs, sha256(text))

\* lines 169-174: addToVectorStore returns before its first await
SkipsAdd(text) ==
    \/ vectorStore = NullStore
    \/ trim(text) = ""
    \/ HasHash(vectorStore.docs, sha256(text))

\* the body of the 200 response of POST /chat (lines 216, 237)
ChatBody(reply, source) == [reply |-> reply, source |-> source]

\* history of the addToVectorStore calls that returned normally on a ready
\* index with a non-blank text
Returned(text, added) ==
    IF vectorStore = NullStore \/ trim(text) = ""
    THEN log
    ELSE [returned |-> log.returned \cup {text},
          added    |-> IF added THEN log.added \cup {text} ELSE log.added]

\* lines 212-217, 169-176: the tool replies; addToVectorStore(reply) runs up
\* to its first await, or returns, and then the response is sent
RunDone(r, reply) ==
    /\ req[r].pc = "run"
    /\ IF SkipsAdd(reply)
       THEN /\ req' = [req EXCEPT ![r] =
                          Sent(r, 200, ChatBody(reply, req[r].toolChoice))]
            /\ log' = Returned(reply, FALSE)
       ELSE /\ req' = [req EXCEPT ![r] = [@ EXCEPT !.pc = "embed", !.reply = reply]]
            /\ log' = log
    /\ UNCHANGED <<formats, folder, boot, snapshot, vectorStore, kb, listening, chats>>

\* line 212: the tool's model call fails
RunFail(r) ==
    /\ req[r].pc = "run"
    /\ Fail(r, "llm failed")
    /\ UNCHANGED <<formats, folder, boot, snapshot, vectorStore, kb, listening, chats, log>>

\* lines 176-179: addDocuments has embedded the text and adds the document
\* to the store; save is called
AddDocumentsDone(r) ==
    /\ req[r].pc = "embed"
    /\ vectorStore' =
          [vectorStore EXCEPT !.docs = Append(@, ChatDoc(req[r].reply, "chat"))]
    /\ req' = [req EXCEPT ![r] = [@ EXCEPT !.pc = "save"]]
    /\ UNCHANGED <<formats, folder, boot, snapshot, kb, listening, chats, log>>

\* the same step if the document were added before the failure is raised
AddDocumentsFail_Added(r) ==
    /\ req[r].pc = "embed"
    /\ vectorStore' =
          [vectorStore EXCEPT !.docs = Append(@, ChatDoc(req[r].reply, "chat"))]
    /\ Fail(r, "embedding failed")
    /\ UNCHANGED <<formats, folder, boot, snapshot, kb, listening, chats, log>>

\* line 176: the embedding of the reply fails
AddDocumentsFail(r) ==
    /\ req[r].pc = "embed"
    /\ Fail(r, "embedding failed")
    /\ UNCHANGED <<formats, folder, boot, snapshot, vectorStore, kb, listening, chats, log>>

\* line 179: save has made the directory and serialises the documents the
\* store holds now, and starts writing them
SaveWrite(r) ==
    /\ req[r].pc = "save"
    /\ req' = [req EXCEPT ![r] = [@ EXCEPT !.pc = "write",
                                           !.pending = vectorStore.docs]]
    /\ UNCHANGED <<formats, folder, boot, snapshot, vectorStore, kb, listening, chats, log>>

\* the same step if addToVectorStore returned without the write having
\* reached the disk
SaveDone_NotPersisted(r) ==
    /\ req[r].pc = "write"
    /\ req' = [req EXCEPT ![r] =
                  Sent(r, 200, ChatBody(req[r].reply, req[r].toolChoice))]
    /\ log' = Returned(req[r].reply, TRUE)
    /\ UNCHANGED <<formats, folder, boot, snapshot, vectorStore, kb, listening, chats>>

\* lines 179, 214-217, 237: the write completes: the file holds what this
\* save serialised; addToVectorStore returns and the response is sent
SaveDone(r) ==
    /\ req[r].pc = "write"
    /\ snapshot' = Saved(req[r].pending)
    /\ req' = [req EXCEPT ![r] =
                  Sent(r, 200, ChatBody(req[r].reply, req[r].toolChoice))]
    /\ log' = Returned(req[r].reply, TRUE)
    /\ UNCHANGED <<formats, folder, boot, vectorStore, kb, listening, chats>>

\* lines 179, 214, 242-253: the write fails, before it has written
\* anything or part-way; the rejection passes through handleChat to the
\* error handler
SaveFail(r) ==
    /\ req[r].pc = "write"
    /\ snapshot' \in {snapshot, Torn}
    /\ Fail(r, "save failed")
    /\ UNCHANGED <<formats, folder, boot, vectorStore, kb, listening, chats, log>>

\* the client has read the response; the connection can carry a new request
Close(r) ==
    /\ req[r].pc = "sent"
    /\ req' = [req EXCEPT ![r] = Idle]
    /\ UNCHANGED <<formats, folder, boot, snapshot, vectorStore, kb, listening, chats, log>>

\* ------------------------------------------------------ GET /vector-stats
\* lines 221-226: the body of the statistics, with
\* (vectorStore as any)?.docs?.length || 0 for totalVectors
StatsBody ==
    [totalVectors     |-> IF vectorStore = NullStore THEN 0
                          ELSE Len(vectorStore.docs),
     files            |-> Len(getAllFiles(folder)),
     topK             |-> TOP_K,
     supportedFormats |-> formats]

\* line 221: res.json of GET /vector-stats
StatsResponse(status, body) ==
    [Idle EXCEPT !.pc = "sent", !.route = "/vector-stats",
                 !.status = status, !.body = body]

\* the handler if it refused to answer while the store is null
VectorStats_NotFound(r) ==
    /\ listening
    /\ req[r].pc = "idle"
    /\ req' = [req EXCEPT ![r] =
                  IF vectorStore = NullStore
                  THEN StatsResponse(404, [error |-> "Vector store not initialized."])
                  ELSE StatsResponse(200, StatsBody)]
    /\ UNCHANGED <<formats, folder, boot, snapshot, vectorStore, kb, listening, chats, log>>

\* lines 220-227
VectorStats(r) ==
    /\ listening
    /\ req[r].pc = "idle"
    /\ req' = [req EXCEPT ![r] = StatsResponse(200, StatsBody)]
    /\ UNCHANGED <<formats, folder, boot, snapshot, vectorStore, kb, listening, chats, log>>

Next ==
    \/ InitStart
    \/ LoadDone
    \/ LoadFail
    \/ \E i \in 1 .. MaxFiles : ProcessFileSettle(i)
    \/ \E i \in 1 .. MaxFiles : CsvStreamError(i)
    \/ Gather
    \/ FromDocumentsDone
    \/ FromDocumentsFail
    \/ InitSaveDone
    \/ InitSaveFail
    \/ Listen
    \/ \E r \in Clients, m \in Messages, u \in BOOLEAN : PostChat(r, m, u)
    \/ \E r \in Clients : RetrieveDone(r)
    \/ \E r \in Clients : RetrieveFail(r)
    \/ \E r \in Clients, a \in RouterAnswers : RouteDone(r, a)
    \/ \E r \in Clients : RouteFail(r)
    \/ \E r \in Clients, t \in Replies : RunDone(r, t)
    \/ \E r \in Clients : RunFail(r)
    \/ \E r \in Clients : AddDocumentsDone(r)
    \/ \E r \in Clients : AddDocumentsFail(r)
    \/ \E r \in Clients : SaveWrite(r)
    \/ \E r \in Clients : SaveDone(r)
    \/ \E r \in Clients : SaveFail(r)
    \/ \E r \in Clients : Close(r)
    \/ \E r \in Clients : VectorStats(r)

Spec == Init /\ [][Next]_vars

\* the steps of the start of the process that the event loop takes once the
\* call they wait for has settled: initializeKnowledgeBase and app.listen
Startup ==
    \/ InitStart
    \/ LoadDone
    \/ LoadFail
    \/ \E i \in 1 .. MaxFiles : ProcessFileSettle(i)
    \/ Gather
    \/ FromDocumentsDone
    \/ FromDocumentsFail
    \/ InitSaveDone
    \/ InitSaveFail
    \/ Listen

\* the server when every call the start of the process waits for settles and
\* the event loop then runs the continuation
FairSpec == Spec /\ WF_vars(Startup)

\* the same server when its clients send one request at a time: a request is
\* sent only after the response to the previous one
Sequential == Cardinality({r \in Clients : Busy(r)}) <= 1
NextSeq == Next /\ Sequential'
SpecSeq == Init /\ [][NextSeq]_vars

\* ================================================================ claims
Docs == vectorStore.docs

\* the positions of docs whose document has the digest of text as its hash
WithHash(docs, text) == {i \in DOMAIN docs : docs[i].hash = sha256(text)}

\* docs holds a document with this content
HasContent(docs, text) == \E i \in DOMAIN docs : docs[i].pageContent = text

\* an execution of addToVectorStore is past its duplicate check and its
\* save has not completed
Appending(r) == req[r].pc \in {"embed", "save", "write"}

\* an execution of addToVectorStore has added its document to the store and
\* its save has not completed
HalfApplied(r) == req[r].pc \in {"save", "write"}

\* C1: no two documents of the vector store carry the same content hash, in
\* any interleaving of chat requests.
C1_UniqueHash ==
    \A i, j \in DOMAIN Docs :
        (i # j /\ Docs[i].hash # NoHash) => Docs[i].hash # Docs[j].hash

\* C2 (requests one at a time): every text whose addToVectorStore call has
\* returned has exactly one document in the store, and a later call with that
\* text returns at once and leaves the store and the snapshot as they were, so
\* that totalVectors is the same after it.
C2_OneRecord == \A t \in log.returned : Cardinality(WithHash(Docs, t)) = 1

C2_SecondCall ==
    \A r \in Clients :
        (/\ req[r].pc = "run"
         /\ req'[r].pc \in {"embed", "sent"}
         /\ \/ req'[r].pc = "embed" /\ req'[r].reply \in log.returned
            \/ /\ req'[r].status = 200
               /\ req'[r].body.reply \in log.returned)
        => /\ req'[r].pc = "sent"
           /\ vectorStore' = vectorStore
           /\ snapshot' = snapshot

C3_MutualExclusion == Cardinality({r \in Clients : Appending(r)}) <= 1

\* C4: no similarity query runs on a store to which an append has added its
\* document without having finished its save.
C4_QueryStep ==
    \A r \in Clients :
        (req[r].pc = "retrieve" /\ req'[r].pc = "route")
        => ~ \E o \in Clients : HalfApplied(o)

C4_NoPartialQuery == [][C4_QueryStep]_vars

\* C5: when no append is in progress, every text that an addToVectorStore
\* call added and returned for is in the store and in the snapshot on disk.
C5_NoLostAppend ==
    (\A r \in Clients : ~ Appending(r))
    => \A t \in log.added :
          HasContent(Docs, t) /\ HasContent(snapshot.docs, t)

\* initializeKnowledgeBase has settled and the server does not listen yet
JustSettled == kb.pc = "settled" /\ ~listening

\* the chunks the files of the folder yield, file after file
RECURSIVE ChunksOf(_)
ChunksOf(fs) ==
    IF fs = <<>> THEN <<>>
    ELSE (IF \/ Throws(Head(fs))
             \/ ~isSupportedFile(Head(fs))
             \/ extname(Head(fs)) \notin Recognized
          THEN <<>>
          ELSE [i \in 1 .. Len(Extracted(Head(fs))) |->
                   FileDoc(Extracted(Head(fs))[i], Head(fs))])
         \o ChunksOf(Tail(fs))

\* the load path leaves the document folder alone: no discovery, no
\* extraction, no embedding
FolderUntouched ==
    /\ ~kb.discovered
    /\ kb.files = <<>>
    /\ kb.results = <<>>
    /\ ~kb.embedded

\* C6 as stated: a persisted index makes the index LOADED without touching
\* the folder; otherwise the files are ingested, the chunks embedded, and the
\* index is BUILT and persisted.
C6_AsStated ==
    JustSettled =>
        IF boot.exists
        THEN IndexState = "LOADED" /\ FolderUntouched
        ELSE /\ kb.discovered
             /\ kb.embedded
             /\ IndexState = "BUILT"
             /\ snapshot = Saved(Docs)

\* C6 as amended: with a persisted index only the load is attempted, the
\* folder is left alone, and the index is LOADED with the snapshot's documents
\* when the load succeeds and ABSENT when it fails; without one the files are
\* discovered and processed; with no chunk the index stays ABSENT and nothing
\* is embedded or persisted; with chunks they are all embedded, the index is
\* BUILT when the embedding succeeds and ABSENT when it fails, and the save
\* that follows leaves the snapshot equal to the index when it succeeds.
C6_TwoPaths ==
    /\ boot.exists =>
          /\ FolderUntouched
          /\ kb.pc # "start" => kb.path = "load"
          /\ JustSettled =>
                /\ snapshot = boot
                /\ IF kb.error
                   THEN IndexState = "ABSENT"
                   ELSE IndexState = "LOADED" /\ Docs = boot.docs
    /\ ~boot.exists =>
          /\ kb.pc # "start" => kb.path = "build" /\ kb.discovered
          /\ JustSettled =>
                IF ChunksOf(folder) = <<>>
                THEN /\ IndexState = "ABSENT"
                     /\ ~kb.embedded
                     /\ snapshot = NoSnapshot
                ELSE /\ kb.embedded => IndexState = "BUILT" /\ Docs = ChunksOf(folder)
                     /\ ~kb.embedded => IndexState = "ABSENT" /\ kb.error
                     /\ ~kb.error => kb.embedded /\ snapshot = Saved(Docs)
                     /\ kb.error => snapshot \in {NoSnapshot, Torn}
                     /\ snapshot = Torn => kb.embedded

\* the build path has run to its end on a folder with a file that fails and
\* files that yield chunks
C6_Witness ==
    /\ JustSettled
    /\ ~boot.exists
    /\ folder = <<"bad.pdf", "b.md", "a.txt">>
    /\ IndexState = "BUILT"
    /\ snapshot = Saved(Docs)
    /\ Len(Docs) = 3

\* C7: when the folder yields no chunk the index stays ABSENT, no index is
\* made from an empty list, nothing is persisted and no error is raised.
C7_EmptyStaysAbsent ==
    (kb.pc = "settled" /\ ~boot.exists /\ ChunksOf(folder) = <<>>)
    => /\ vectorStore = NullStore
       /\ ~kb.embedded
       /\ snapshot = NoSnapshot
       /\ ~kb.error

\* every file of a folder with files has yielded no chunk
C7_Witness ==
    /\ kb.pc = "settled"
    /\ ~boot.exists
    /\ folder = <<"empty.txt", "bad.pdf">>
    /\ kb.running = {}
    /\ kb.files = folder
    /\ vectorStore = NullStore

\* C8: while the index is ABSENT a chat request never queries it and its
\* context is empty; the only failure it can end with is a failure of a
\* language-model call, and when the tool replies the response is 200.
C8_AbsentState ==
    vectorStore = NullStore =>
        \A r \in Clients :
            /\ req[r].pc \in {"idle", "route", "run", "sent"}
            /\ req[r].context = <<>>
            /\ (req[r].pc = "sent" /\ req[r].status = 500)
                  => req[r].body = [error |-> "llm failed"]

C8_AbsentReply ==
    \A r \in Clients :
        (vectorStore = NullStore /\ req[r].pc = "run" /\ req'[r].pc # "run")
        => /\ req'[r].pc = "sent"
           /\ \/ req'[r].status = 500
              \/ /\ req'[r].status = 200
                 /\ \E t \in Replies :
                       req'[r].body = ChatBody(t, req[r].toolChoice)

C8_AbsentChat == [](C8_AbsentState) /\ [][C8_AbsentReply]_vars

\* with the index ABSENT one request with useRAG true waits for the router
\* and another has been answered 200
C8_Witness ==
    /\ vectorStore = NullStore
    /\ \E r, o \in Clients :
          /\ req[r].pc = "route" /\ req[r].useRAG /\ req[r].message = "hello"
          /\ req[o].pc = "sent" /\ req[o].status = 200
          /\ req[o].body = ChatBody("hi", "default")

\* C9: a request with a missing or empty message is answered 400 with an
\* error field at once: it never waits for the retriever, a model or the
\* store, and the step that answers it leaves the store and the snapshot
\* unchanged.
C9_Rejected ==
    \A r \in Clients :
        (req[r].route = "/chat" /\ req[r].message \in {Undefined, ""})
        => /\ req[r].pc = "sent"
           /\ req[r].status = 400
           /\ req[r].body = [error |-> "Message is required."]

C9_RejectStep ==
    \A r \in Clients :
        (/\ req[r].pc = "idle"
         /\ req'[r].route = "/chat"
         /\ req'[r].message \in {Undefined, ""})
        => /\ vectorStore' = vectorStore
           /\ snapshot' = snapshot
           /\ log' = log

C9_BadRequest == [](C9_Rejected) /\ [][C9_RejectStep]_vars

C9_Witness ==
    \E r \in Clients :
        /\ req[r].route = "/chat"
        /\ req[r].pc = "sent"
        /\ req[r].message = ""
        /\ req[r].status = 400

\* the response is one of GET /vector-stats
IsStats(q) == q.pc = "sent" /\ q.route = "/vector-stats"

\* C10: GET /vector-stats can be served whenever the server listens, answers
\* 200 with totalVectors, files, topK and supportedFormats, reports the number
\* of documents of the store, 0 when the index is ABSENT, and changes neither
\* the store nor the snapshot.
C10_Shape ==
    \A r \in Clients :
        /\ (listening /\ req[r].pc = "idle") => ENABLED VectorStats(r)
        /\ IsStats(req[r]) =>
              /\ req[r].status = 200
              /\ DOMAIN req[r].body =
                    {"totalVectors", "files", "topK", "supportedFormats"}
              /\ req[r].body.topK = TOP_K
              /\ req[r].body.supportedFormats = formats
              /\ req[r].body.files = Len(getAllFiles(folder))
              /\ vectorStore = NullStore => req[r].body.totalVectors = 0

C10_StatsStep ==
    \A r \in Clients :
        (req[r].pc = "idle" /\ IsStats(req'[r]))
        => /\ vectorStore' = vectorStore
           /\ snapshot' = snapshot
           /\ req'[r].body.totalVectors = Len(Docs)

C10_StatsSafe == [](C10_Shape) /\ [][C10_StatsStep]_vars

\* the statistics were served on an ABSENT index and on a ready one
C10_Witness ==
    \E r \in Clients :
        /\ IsStats(req[r])
        /\ vectorStore = NullStore
        /\ req[r].body.totalVectors = 0
        /\ folder = <<"empty.txt", "bad.pdf">>

\* C11: when addToVectorStore returns normally after adding a document, a
\* write of the store that contains that document has completed: in the step
\* in which the call returns, the snapshot on disk is whole and holds the
\* added text, with its hash and the source "chat".
C11_ReturnStep ==
    \A t \in log'.added \ log.added :
        /\ snapshot'.exists
        /\ snapshot'.whole
        /\ \E i \in DOMAIN snapshot'.docs :
              snapshot'.docs[i] = ChatDoc(t, "chat")

C11_PersistedOnReturn == [][C11_ReturnStep]_vars

\* the append of the reply "yo" has returned and the request is answered
\* while the snapshot holds the reply
C11_Witness ==
    \E r \in Clients :
        /\ req[r].pc = "sent"
        /\ req[r].route = "/chat"
        /\ req[r].status = 200
        /\ req[r].body.reply = "yo"
        /\ "yo" \in log.added
        /\ HasContent(snapshot.docs, "yo")
        /\ boot = NoSnapshot

\* C12: a failure of the embedding or of the write while addToVectorStore
\* appends a produced reply is swallowed: the request whose append is in
\* progress ends with status 200 and that reply, never with 500.
C12_AppendStep ==
    \A r \in Clients :
        (Appending(r) /\ req'[r].pc = "sent")
        => /\ req'[r].status = 200
           /\ req'[r].body = ChatBody(req[r].reply, req[r].toolChoice)

C12_BestEffort == [][C12_AppendStep]_vars

\* C13: the response of POST /chat does not wait for addToVectorStore: the
\* step in which the tool produces the reply sends the response, whether or
\* not an append is started.
C13_ReplyStep ==
    \A r \in Clients :
        (req[r].pc = "run" /\ req'[r].pc # "run") => req'[r].pc = "sent"

C13_Decoupled == [][C13_ReplyStep]_vars

\* the batch of BATCH_SIZE files the file at position i belongs to
BatchOf(i) == (i - 1) \div BATCH_SIZE

\* the processFile tasks that have been started: running or finished
StartedTasks == kb.running \cup {kb.order[k] : k \in DOMAIN kb.order}

\* C14: while the files are processed at most BATCH_SIZE processFile tasks
\* are in flight, and no task of a later batch has been started while a task
\* of an earlier batch is still running.
C14_BoundedBatch ==
    kb.pc = "processing" =>
        /\ Cardinality(kb.running) <= BATCH_SIZE
        /\ \A i \in kb.running :
              \A j \in StartedTasks : BatchOf(j) <= BatchOf(i)

\* C15: the chunk list of the ingestion is the concatenation, in the
\* discovery order of the files, of each file's chunks in their split order,
\* in whatever order the processFile tasks finished.
C15_DiscoveryOrder ==
    kb.pc = "embedding" => kb.allDocs = ChunksOf(folder)

\* the six tasks finished in the reverse of the discovery order and the
\* chunk list is gathered
C15_Witness ==
    /\ kb.pc = "embedding"
    /\ Len(kb.files) = 6
    /\ kb.order = <<6, 5, 4, 3, 2, 1>>
    /\ Len(kb.allDocs) = 6
    /\ kb.allDocs[1] = FileDoc("sky", "r.pdf")
    /\ kb.allDocs[6] = FileDoc("moon", "u.docx")

\* the chunk documents of a file that was read without a failure are all in
\* docs
HoldsChunksOf(docs, f) ==
    \A k \in DOMAIN Extracted(f) :
        \E n \in DOMAIN docs : docs[n] = FileDoc(Extracted(f)[k], f)

\* C16: a file whose extraction fails yields zero chunks and a logged
\* failure, the failure does not end the initialisation, every other file is
\* processed and the chunks of the files that did not fail are all gathered.
C16_Tolerant ==
    /\ kb.pc # "crashed"
    /\ \A i \in DOMAIN kb.files :
          (i \notin kb.running /\ Throws(kb.files[i]))
          => kb.results[i] = <<>> /\ i \in kb.logged
    /\ kb.error => kb.path = "load" \/ kb.allDocs # <<>>
    /\ kb.pc = "embedding" =>
          /\ kb.running = {}
          /\ {kb.order[k] : k \in DOMAIN kb.order} = DOMAIN kb.files
          /\ \A i \in DOMAIN kb.files :
                (~Throws(kb.files[i]) /\ extname(kb.files[i]) \in Recognized)
                => HoldsChunksOf(kb.allDocs, kb.files[i])

\* C17: processing a file whose extension is none of the recognized kinds
\* ends with an error outcome of its own (a logged failure), unlike a
\* recognized file whose text is empty, which yields zero chunks silently;
\* also under an allow-list that admits such an extension.
C17_UnsupportedFormat ==
    \A i \in DOMAIN kb.files :
        (i \notin kb.running /\ extname(kb.files[i]) \notin Recognized)
        => i \in kb.logged

\* C18: a write of the store that fails never damages what the storage
\* location held: the location always holds nothing or the whole result of a
\* completed write, a failing write leaves it as it was, and the append or the
\* build that started the write fails.
C18_Whole == snapshot.whole

C18_FailStep ==
    /\ \A r \in Clients :
          (req[r].pc = "write" /\ req'[r].pc = "sent" /\ snapshot' # Saved(req[r].pending))
          => snapshot' = snapshot /\ req'[r].status = 500
    /\ (kb.pc = "saving" /\ kb'.pc = "settled" /\ snapshot' # Saved(Docs))
          => snapshot' = snapshot /\ kb'.error

C18_AtomicWrite == [](C18_Whole) /\ [][C18_FailStep]_vars

Min(a, b) == IF a <= b THEN a ELSE b

\* C19: with useRAG true and the index ready the handler queries the index
\* once, for at most TOP_K records, and its context is the truncated texts of
\* the records found; with useRAG false or the index ABSENT the index is not
\* queried and the context is empty.
C19_ContextState ==
    \A r \in Clients :
        /\ req[r].pc = "retrieve" => req[r].useRAG /\ vectorStore # NullStore
        /\ req[r].pc = "route" =>
              IF req[r].useRAG /\ vectorStore # NullStore
              THEN Len(req[r].context) <= TOP_K
              ELSE req[r].context = <<>>
        /\ req[r].pc \notin {"retrieve", "route"} => req[r].context = <<>>

C19_ContextStep ==
    \A r \in Clients :
        /\ (req[r].pc # "retrieve" /\ req'[r].pc = "retrieve")
              => req[r].pc = "idle"
        /\ (req[r].pc = "idle" /\ req'[r].pc = "route")
              => ~(req'[r].useRAG /\ vectorStore # NullStore)
        /\ (req[r].pc = "retrieve" /\ req'[r].pc = "route")
              => /\ vectorStore' = vectorStore
                 /\ Len(req'[r].context) = Min(TOP_K, Len(Docs))
                 /\ \A i \in DOMAIN req'[r].context :
                       \E j \in DOMAIN Docs :
                           req'[r].context[i] =
                               slice(Docs[j].pageContent, 0, PREVIEW_LEN)

C19_Context == [](C19_ContextState) /\ [][C19_ContextStep]_vars

\* a request with useRAG true has its context from a store of six records:
\* five previews, one of them truncated
C19_Witness ==
    \E r \in Clients :
        /\ req[r].pc = "route"
        /\ req[r].useRAG
        /\ Len(Docs) = 6
        /\ req[r].context = <<"sky", "gra", "green", "sea", "sun">>

\* C20: the strategy that runs is the one the router's decision names: the
\* code-focused one for codingTool, the general-purpose one for default, and
\* the default one as fallback only for a decision that names neither.
C20_RoutedAsNamed ==
    \A r \in Clients :
        req[r].pc = "run" =>
            /\ req[r].toolChoice = toLowerCase("codingTool")
                  => req[r].tool = "codingTool"
            /\ req[r].toolChoice = toLowerCase("default")
                  => req[r].tool = "default"
            /\ req[r].tool \in tools

\* the step sends the 200 response of a POST /chat request
Answers(r) ==
    /\ Busy(r)
    /\ req'[r].pc = "sent"
    /\ req'[r].route = "/chat"
    /\ req'[r].status = 200

\* C21: the source field of the /chat response names the strategy whose run
\* produced the reply, also when the default strategy ran as fallback.
C21_AnswerStep ==
    \A r \in Clients : Answers(r) => req'[r].body.source = req[r].tool

C21_SourceNamesTool == [][C21_AnswerStep]_vars

\* the step ends the request with the failure of a model or embedding call
UpstreamFails(r) ==
    /\ Busy(r)
    /\ req'[r].pc = "sent"
    /\ req'[r].status = 500
    /\ req'[r].body \in {[error |-> "llm failed"], [error |-> "embedding failed"]}

\* C22: a request whose language-model or embedding call fails ends with one
\* 500 response that carries an error field: the call is not made again, the
\* request has added no document to the store and adds none, and nothing is
\* written; a response once sent is never replaced.
C22_FailStep ==
    \A r \in Clients :
        /\ UpstreamFails(r)
              => /\ req[r].pc \in {"retrieve", "route", "run", "embed"}
                 /\ vectorStore' = vectorStore
                 /\ snapshot' = snapshot
                 /\ log' = log
        /\ (Busy(r) /\ req'[r].pc = "sent" /\ req'[r].status = 500)
              => DOMAIN req'[r].body = {"error"}
        /\ req[r].pc = "sent" => req'[r] \in {req[r], Idle}

C22_OneFailure == [][C22_FailStep]_vars

\* on a ready index the embedding of a request's text failed: the request is
\* answered 500 and the store holds the chunk of the file only
C22_Witness ==
    \E r \in Clients :
        /\ req[r].pc = "sent"
        /\ req[r].status = 500
        /\ req[r].body = [error |-> "embedding failed"]
        /\ folder = <<"a.txt">>
        /\ Docs = <<FileDoc("sky", "a.txt")>>
        /\ chats = 1

\* the record was split from a file of the folder: its source is the name of
\* a file whose text has this piece, and it has no hash
FileDerived(d) ==
    /\ d.hash = NoHash
    /\ \E k \in DOMAIN folder :
          /\ d.source = folder[k]
          /\ \E n \in DOMAIN Extracted(folder[k]) :
                d.pageContent = Extracted(folder[k])[n]

\* the record was appended from a chat reply: its source is "chat" and its
\* hash is the digest of its content
ChatDerived(d) ==
    /\ d.source = "chat"
    /\ d.hash = sha256(d.pageContent)

\* C23: every record of the index is either file-derived or chat-derived, not
\* both, and no record has a hash other than the digest of its content.
C23_TwoShapes ==
    \A i \in DOMAIN Docs :
        /\ FileDerived(Docs[i]) \/ ChatDerived(Docs[i])
        /\ ~(FileDerived(Docs[i]) /\ ChatDerived(Docs[i]))
        /\ Docs[i].hash # NoHash => Docs[i].hash = sha256(Docs[i].pageContent)

\* a built index holds the chunks of two files and two appended replies
C23_Witness ==
    /\ folder = <<"bad.pdf", "b.md", "a.txt">>
    /\ boot = NoSnapshot
    /\ Len(Docs) = 5
    /\ \E i, j \in DOMAIN Docs :
          /\ Docs[i] = FileDoc("green", "b.md")
          /\ Docs[j] = ChatDoc("yo", "chat")

\* C24: the index leaves ABSENT at most once, to LOADED or to BUILT, and only
\* in initializeKnowledgeBase before the server listens; a ready index keeps
\* its state and its record count never decreases; once the server listens an
\* ABSENT index stays ABSENT and no request writes a snapshot for it.
C24_IndexStep ==
    /\ IndexState # "ABSENT" =>
          /\ IndexState' = IndexState
          /\ Len(vectorStore'.docs) >= Len(Docs)
    /\ (IndexState = "ABSENT" /\ IndexState' # "ABSENT") =>
          /\ ~listening
          /\ \/ kb.pc = "loading" /\ IndexState' = "LOADED"
             \/ kb.pc = "embedding" /\ IndexState' = "BUILT"
    /\ (listening /\ vectorStore = NullStore) =>
          /\ vectorStore' = NullStore
          /\ snapshot' = snapshot
          /\ log' = log
          /\ \A r \in Clients : req'[r].pc \notin {"embed", "save", "write"}

C24_StateMachine == [][C24_IndexStep]_vars

\* on an ABSENT index two chat requests were answered with non-blank replies
\* and nothing was stored or written
C24_Witness ==
    /\ listening
    /\ vectorStore = NullStore
    /\ snapshot = NoSnapshot
    /\ folder = <<>>
    /\ \E r, o \in Clients :
          /\ r # o
          /\ req[r].pc = "sent" /\ req[r].body = ChatBody("yo", "general")
          /\ req[o].pc = "sent" /\ req[o].body = ChatBody("hi", "default")

\* C25: the server listens only after initializeKnowledgeBase has settled,
\* no request is served before it listens, and it starts listening after the
\* initialisation has settled with any outcome: loaded, built, nothing to
\* index, or a failure of the load, the embedding or the save.
C25_Order ==
    /\ listening => kb.pc = "settled"
    /\ \A r \in Clients : req[r].pc # "idle" => listening
    /\ (kb.pc = "settled" /\ ~listening) => ENABLED Listen

C25_ListensAfterInit == [](C25_Order) /\ (kb.pc = "settled" ~> listening)

\* the save of the first build failed and the server listens and has served a
\* request
C25_Witness ==
    /\ listening
    /\ kb.error
    /\ kb.embedded
    /\ snapshot = NoSnapshot
    /\ \E r \in Clients : IsStats(req[r]) /\ req[r].body.totalVectors = 1

\* C26: the initialisation always terminates: whatever read or parse error a
\* file meets, every processFile task settles, initializeKnowledgeBase
\* completes and the server starts listening.
C26_Terminates == <>listening

\* no build and no append is in progress
Quiescent ==
    /\ kb.pc = "settled"
    /\ \A r \in Clients : ~Appending(r)

\* C27: whenever no build and no append is in progress, a ready index has
\* its records in the snapshot on disk, and the snapshot holds exactly them.
C27_SnapshotMatches ==
    (Quiescent /\ vectorStore # NullStore) => snapshot = Saved(Docs)

\* the text was appended and persisted by the run that left the snapshot
PersistedChat(t) ==
    \E i \in DOMAIN boot.docs : boot.docs[i] = ChatDoc(t, "chat")

\* the text is that of a file-derived record of the snapshot and of no
\* chat-derived one
PersistedFileText(t) ==
    /\ \E i \in DOMAIN boot.docs :
          boot.docs[i].pageContent = t /\ boot.docs[i].hash = NoHash
    /\ ~PersistedChat(t)

\* the reply with which addToVectorStore is called in this step
CalledWith(r, t) ==
    /\ req[r].pc = "run"
    /\ \/ req'[r].pc = "embed" /\ req'[r].reply = t
       \/ /\ req'[r].pc = "sent"
          /\ req'[r].status = 200
          /\ req'[r].body.reply = t

\* C28 (requests one at a time): the index loaded from a snapshot holds the
\* snapshot's records with their hashes; a call of addToVectorStore with a
\* text the earlier run appended returns at once and the record count does
\* not grow; a call with the text of a file-derived record is not skipped
\* while no chat-derived record of it exists, and the text ends up with one
\* chat-derived record.
C28_LoadedState ==
    IndexState = "LOADED" =>
        /\ SubSeq(Docs, 1, Len(boot.docs)) = boot.docs
        /\ \A t \in Replies :
              /\ PersistedChat(t) => Cardinality(WithHash(Docs, t)) = 1
              /\ PersistedFileText(t) =>
                    /\ Cardinality(WithHash(Docs, t)) <= 1
                    /\ t \in log.added =>
                          /\ Cardinality(WithHash(Docs, t)) = 1
                          /\ \E i \in DOMAIN Docs : Docs[i] = ChatDoc(t, "chat")

C28_LoadedStep ==
    IndexState = "LOADED" =>
        \A r \in Clients, t \in Replies :
            CalledWith(r, t) =>
                /\ PersistedChat(t) =>
                      /\ req'[r].pc = "sent"
                      /\ vectorStore' = vectorStore
                      /\ snapshot' = snapshot
                /\ (PersistedFileText(t) /\ WithHash(Docs, t) = {}) =>
                      req'[r].pc = "embed"

====
